---- MODULE Spec2Model ----
(***************************************************************************)
(* Model of the two scripts of icva_parser:                                *)
(*   parse_VEA.py             the Extractor (PDF text -> parsed_data.csv)  *)
(*   load_VEA_to_database.py  the Loader    (CSV file -> MariaDB table)    *)
(* Text is modelled as sequences of one-character strings, so that         *)
(* str.split, str.strip, str.splitlines, re.match and strptime are         *)
(* computed on characters as the code computes them.                       *)
(***************************************************************************)
EXTENDS Naturals, Sequences, FiniteSets, TLC

VARIABLES
    \* ---- a single call of parse_data_line (parse_VEA.py:6-40)
    ppc,           \* "call" before the call, "returned" after it
    line,          \* the argument
    result,        \* the call's outcome
    \* ---- parse_VEA.py main()
    epc,           \* position in main()
    pdf_pages,     \* page.extract_text() of every page, in page order
    next_page,     \* index of the page the extraction loop takes next
    full_text,     \* main(): full_text
    data_lines,    \* main(): data_lines
    next_line,     \* index of the data line the for loop takes next
    parsed_rows,   \* main(): parsed_rows
    next_row,      \* index of the row the write loop takes next
    stdout,        \* what the Extractor printed
    csvfile,       \* the lines written to parsed_data.csv
    \* ---- load_VEA_to_database.py
    lpc,           \* position in __main__ and main()
    env,           \* the environment after load_dotenv(): DB_* settings
    csv_exists,    \* whether the file args.csv names exists
    csv_columns,   \* the header of that file
    csv_rows,      \* its rows, as text
    cfg,           \* main(): cfg
    engine,        \* main(): engine (the URL it was built from)
    df,            \* main(): df
    db,            \* the database: table name -> [exists, rows]
    db_before,     \* history: db as it was when the run started
    io_log,        \* history: file and database operations, in order
    out,           \* what the Loader printed to the output stream
    err,           \* what reached the error stream
    exit_status    \* the process's exit status, "running" until it ends

pvars == <<ppc, line, result>>
evars == <<epc, pdf_pages, next_page, full_text, data_lines, next_line, parsed_rows,
           next_row, stdout, csvfile>>
lvars == <<lpc, env, csv_exists, csv_columns, csv_rows, cfg, engine, df, db,
           db_before, io_log, out, err, exit_status>>
vars == <<pvars, evars, lvars>>

(***************************************************************************)
(* Bounds of the inputs.                                                   *)
(***************************************************************************)
MaxNameTokens == 2
MaxTrailing == 9
MaxLines == 3

(***************************************************************************)
(* Characters and text helpers.                                            *)
(***************************************************************************)
Digit == {"0", "1", "2", "3", "4", "5", "6", "7", "8", "9"}
Upper == {"A", "B", "C", "D", "E", "F", "G", "H", "I", "J", "K", "L", "M",
          "N", "O", "P", "Q", "R", "S", "T", "U", "V", "W", "X", "Y", "Z"}
\* the characters str.split() and str.strip() treat as whitespace
Whitespace == {" ", "\t", "\n"}

RECURSIVE Concat(_)
\* "".join(parts)
Concat(parts) ==
    IF parts = <<>> THEN <<>> ELSE Head(parts) \o Concat(Tail(parts))

RECURSIVE Join(_, _)
\* sep.join(parts)
Join(sep, parts) ==
    IF parts = <<>> THEN <<>>
    ELSE IF Len(parts) = 1 THEN parts[1]
    ELSE parts[1] \o sep \o Join(sep, Tail(parts))

\* the k-th smallest element of a set of numbers
Kth(S, k) == CHOOSE p \in S : Cardinality({q \in S : q <= p}) = k

\* line.split(): the maximal runs of non-whitespace characters, in order
split(s) ==
    LET starts == {i \in 1..Len(s) :
                      s[i] \notin Whitespace
                      /\ (i = 1 \/ s[i - 1] \in Whitespace)}
        ends == {i \in 1..Len(s) :
                    s[i] \notin Whitespace
                    /\ (i = Len(s) \/ s[i + 1] \in Whitespace)}
    IN  [k \in 1..Cardinality(starts) |->
            SubSeq(s, Kth(starts, k), Kth(ends, k))]

\* line.strip(): without its leading and trailing whitespace
strip(s) ==
    LET black == {i \in 1..Len(s) : s[i] \notin Whitespace}
    IN  IF black = {} THEN <<>>
        ELSE SubSeq(s, Kth(black, 1), Kth(black, Cardinality(black)))

\* s.startswith(prefix)
startswith(s, prefix) ==
    Len(s) >= Len(prefix) /\ SubSeq(s, 1, Len(prefix)) = prefix

\* full_text.splitlines(): a line ends at each newline; no empty last line
splitlines(s) ==
    LET nls == {i \in 1..Len(s) : s[i] = "\n"}
        n == Cardinality(nls)
        count == IF s # <<>> /\ s[Len(s)] # "\n" THEN n + 1 ELSE n
        start(k) == IF k = 1 THEN 1 ELSE Kth(nls, k - 1) + 1
        end(k) == IF k <= n THEN Kth(nls, k) - 1 ELSE Len(s)
    IN  [k \in 1..count |-> SubSeq(s, start(k), end(k))]

(***************************************************************************)
(* parse_data_line                                                         *)
(***************************************************************************)
\* re.match(date_pattern, token) with date_pattern \d{2}-[A-Z]{3}-\d{4}:
\* re.match anchors the pattern at the start of the token only
date_pattern_match(token) ==
    /\ Len(token) >= 11
    /\ token[1] \in Digit /\ token[2] \in Digit
    /\ token[3] = "-"
    /\ token[4] \in Upper /\ token[5] \in Upper /\ token[6] \in Upper
    /\ token[7] = "-"
    /\ token[8] \in Digit /\ token[9] \in Digit
    /\ token[10] \in Digit /\ token[11] \in Digit

\* the indices next(...) chooses from: every token, the first one included
date_candidates(tokens) ==
    {i \in 1..Len(tokens) : date_pattern_match(tokens[i])}

Min(S) == CHOOSE x \in S : \A y \in S : x <= y

fieldnames == <<"ICVA ID", "Full Name", "Test Date", "Scale Score",
                "Total Percent Correct", "Anatomy", "Physiology",
                "Pharmacology", "Microbiology", "Pathology">>

\* the dictionary parse_data_line returns
make_row(icva_id, full_name, test_date, scores) ==
    [f \in {fieldnames[k] : k \in 1..10} |->
        CASE f = "ICVA ID" -> icva_id
          [] f = "Full Name" -> full_name
          [] f = "Test Date" -> test_date
          [] f = "Scale Score" -> scores[1]
          [] f = "Total Percent Correct" -> scores[2]
          [] f = "Anatomy" -> scores[3]
          [] f = "Physiology" -> scores[4]
          [] f = "Pharmacology" -> scores[5]
          [] f = "Microbiology" -> scores[6]
          [] f = "Pathology" -> scores[7]]

\* the outcome of parse_data_line(line): a returned row, or the exception
parse_data_line(ln) ==
    LET tokens == split(ln) IN
    IF tokens = <<>>
    THEN [ok |-> FALSE, error |-> "IndexError", count |-> 0]
    ELSE IF date_candidates(tokens) = {}
    THEN [ok |-> FALSE, error |-> "StopIteration", count |-> 0]
    ELSE LET date_index == Min(date_candidates(tokens))
             name_tokens == SubSeq(tokens, 2, date_index - 1)
             scores == SubSeq(tokens, date_index + 1, Len(tokens))
         IN  IF Len(scores) # 7
             THEN [ok |-> FALSE, error |-> "ValueError",
                   count |-> Len(scores)]
             ELSE [ok |-> TRUE,
                   row |-> make_row(tokens[1], Join(<<" ">>, name_tokens),
                                    tokens[date_index], scores)]

(***************************************************************************)
(* Tokens the inputs are built from.                                       *)
(***************************************************************************)
ICVA == <<"I", "C", "V", "A">>
Id1 == ICVA \o <<"1">>
Id2 == ICVA \o <<"0", "2">>
Jane == <<"J", "a", "n", "e">>
Q == <<"Q">>
Date1 == <<"1", "5", "-", "M", "A", "Y", "-", "2", "0", "2", "5">>
Date2 == <<"0", "1", "-", "J", "A", "N", "-", "2", "0", "2", "4">>
\* begins like a date and goes on: not of the date shape as a whole
Date1x == Date1 \o <<"x">>
\* lower-case month: never matched
Date1lc == <<"1", "5", "-", "m", "a", "y", "-", "2", "0", "2", "5">>
ScorePool == <<<<"4", "5", "0">>, <<"8", "8">>, <<"9", "0">>, <<"8", "5">>,
               <<"9", "2">>, <<"8", "7">>, <<"9", "1">>, <<"7", "7">>,
               <<"6", "6">>, <<"5", "5">>, <<"4", "4">>>>

RECURSIVE SeqsUpTo(_, _)
\* the sequences over S of length at most n
SeqsUpTo(S, n) ==
    IF n = 0 THEN {<<>>}
    ELSE LET shorter == SeqsUpTo(S, n - 1)
         IN  shorter \cup {Append(s, x) : s \in shorter, x \in S}

IdTokens == {Id1, Id2}
NameTokens == {Jane, Q, Date1x}
\* what stands where the date is expected: a date, or a token that is none
DateTokens == {Date1, Date2, Date1lc}

\* the trailing tokens: n from the pool; with endsInDate, the last is a date
Trailing(n, endsInDate) ==
    IF endsInDate /\ n > 0
    THEN Append(SubSeq(ScorePool, 1, n - 1), Date2)
    ELSE SubSeq(ScorePool, 1, n)

\* the lines a call of parse_data_line is tried on
ParseInputs ==
    {lead \o Join(sep, <<id>> \o names \o <<date>> \o Trailing(n, e)) \o trail :
        lead \in {<<>>, <<" ">>}, trail \in {<<>>},
        sep \in {<<" ">>, <<" ", "\t">>},
        id \in IdTokens,
        names \in SeqsUpTo(NameTokens, MaxNameTokens),
        date \in DateTokens,
        n \in 0..MaxTrailing,
        e \in BOOLEAN}

\* the value os.getenv returns for a variable that is not set
None == "<None>"

Settings == {"DB_HOST", "DB_USER", "DB_PASS", "DB_NAME", "DB_TABLE"}
CfgKeys == <<"host", "user", "password", "database", "table">>
TableNames == {"vea_2025", "scores", "None"}

NoTable == [exists |-> FALSE, rows |-> {}]

LoaderIdle ==
    /\ lpc = "idle"
    /\ env = [k \in Settings |-> None]
    /\ csv_exists = FALSE /\ csv_columns = {} /\ csv_rows = <<>>
    /\ cfg = [k \in {CfgKeys[i] : i \in 1..5} |-> None]
    /\ engine = <<>>
    /\ df = <<>>
    /\ db = [t \in TableNames |-> NoTable]
    /\ db_before = [t \in TableNames |-> NoTable]
    /\ io_log = <<>> /\ out = <<>> /\ err = <<>>
    /\ exit_status = "running"

(***************************************************************************)
(* A call of parse_data_line.                                              *)
(***************************************************************************)
ExtractorIdle ==
    /\ epc = "idle" /\ pdf_pages = <<>> /\ next_page = 1 /\ full_text = <<>>
    /\ data_lines = <<>> /\ next_line = 1 /\ parsed_rows = <<>>
    /\ next_row = 1 /\ stdout = <<>> /\ csvfile = <<>>

NoResult == [ok |-> FALSE, error |-> "none", count |-> 0]

ParseInit ==
    /\ ppc = "call"
    /\ line \in ParseInputs
    /\ result = NoResult
    /\ ExtractorIdle
    /\ LoaderIdle

CallParse ==
    /\ ppc = "call"
    /\ result' = parse_data_line(line)
    /\ ppc' = "returned"
    /\ UNCHANGED <<line, evars, lvars>>

ParseNext == CallParse

ParseSpec == ParseInit /\ [][ParseNext]_vars

(***************************************************************************)
(* parse_VEA.py main(): the Extractor.                                     *)
(***************************************************************************)
expected_students == 107

NL == <<"\n">>
Sp == <<" ">>
GoodLine1 == Join(Sp, <<Id1, Jane, Q, Date1>> \o SubSeq(ScorePool, 1, 7))
\* no name token, surrounded by whitespace
GoodLine2 == <<" ", " ">> \o Join(Sp, <<Id2, Date2>> \o SubSeq(ScorePool, 2, 8))
                \o <<"\t">>
\* a name token that holds a comma
CommaLine == Join(Sp, <<Id2, <<"D", "o", "e", ",">>, Jane, Date1>>
                        \o SubSeq(ScorePool, 3, 9))
SixLine == Join(Sp, <<Id1, Jane, Date1>> \o SubSeq(ScorePool, 1, 6))
EightLine == Join(Sp, <<Id2, Date2>> \o SubSeq(ScorePool, 1, 8))
NoDateLine == Join(Sp, <<Id1, Jane, Date1lc>> \o SubSeq(ScorePool, 1, 7))
\* header and footer noise: does not start with ICVA
NoiseLine == Join(Sp, <<Q, Id1, Date1>> \o SubSeq(ScorePool, 1, 7))
ShortLine == Join(Sp, <<Id1, Date2>> \o SubSeq(ScorePool, 5, 11))

LinePool == {GoodLine1, GoodLine2, CommaLine, SixLine, EightLine, NoDateLine,
             NoiseLine}

\* a report of expected_students good lines, one line to the page, and the
\* same report with a malformed line in second place
FullReport == [i \in 1..expected_students |-> ShortLine]
FullReportWithBadLine ==
    <<ShortLine, SixLine>> \o [i \in 1..(expected_students - 1) |-> ShortLine]

\* the page texts of a document whose lines are doc, cut after the first
\* line when twoPages
Pages(doc, twoPages) ==
    IF twoPages /\ Len(doc) >= 1
    THEN <<doc[1], Join(NL, Tail(doc))>>
    ELSE <<Join(NL, doc)>>

Documents ==
    {Pages(doc, two) : doc \in SeqsUpTo(LinePool, MaxLines), two \in BOOLEAN}
    \cup {FullReport, FullReportWithBadLine}

ParserIdle == ppc = "idle" /\ line = <<>> /\ result = NoResult

ExtractorInit ==
    /\ ParserIdle
    /\ LoaderIdle
    /\ epc = "extract"
    /\ pdf_pages \in Documents
    /\ next_page = 1
    /\ full_text = <<>>
    /\ data_lines = <<>>
    /\ next_line = 1
    /\ parsed_rows = <<>>
    /\ next_row = 1
    /\ stdout = <<>>
    /\ csvfile = <<>>

\* for page in pdf.pages: full_text += page.extract_text() + "\n"
ExtractPage ==
    /\ epc = "extract"
    /\ next_page <= Len(pdf_pages)
    /\ full_text' = full_text \o pdf_pages[next_page] \o NL
    /\ next_page' = next_page + 1
    /\ UNCHANGED <<epc, pdf_pages, data_lines, next_line, parsed_rows,
                   next_row, stdout, csvfile, pvars, lvars>>

\* [line.strip() for line in lines if line.strip().startswith("ICVA")]
filter_data_lines(lines) ==
    SelectSeq([i \in 1..Len(lines) |-> strip(lines[i])],
              LAMBDA l : startswith(l, ICVA))

SplitAndFilter ==
    /\ epc = "extract"
    /\ next_page > Len(pdf_pages)
    /\ data_lines' = filter_data_lines(splitlines(full_text))
    /\ epc' = "parse"
    /\ UNCHANGED <<pdf_pages, next_page, full_text, next_line, parsed_rows,
                   next_row, stdout, csvfile, pvars, lvars>>

Printed(kind, text, n) == [kind |-> kind, text |-> text, n |-> n]

\* one turn of the for loop whose parse_data_line returns a row
ParseRow ==
    /\ epc = "parse"
    /\ next_line <= Len(data_lines)
    /\ parse_data_line(data_lines[next_line]).ok
    /\ parsed_rows' =
           Append(parsed_rows, parse_data_line(data_lines[next_line]).row)
    /\ next_line' = next_line + 1
    /\ UNCHANGED <<epc, pdf_pages, next_page, full_text, data_lines,
                   next_row, stdout, csvfile, pvars, lvars>>

\* ParseError as it would be if the handler let the exception through
ParseErrorAborts ==
    /\ epc = "parse"
    /\ next_line <= Len(data_lines)
    /\ ~parse_data_line(data_lines[next_line]).ok
    /\ epc' = "crashed"
    /\ UNCHANGED <<pdf_pages, next_page, full_text, data_lines, next_line,
                   parsed_rows, next_row, stdout, csvfile, pvars, lvars>>

\* one turn of the for loop whose parse_data_line raises: except Exception
ParseError ==
    /\ epc = "parse"
    /\ next_line <= Len(data_lines)
    /\ ~parse_data_line(data_lines[next_line]).ok
    /\ stdout' = Append(stdout,
           Printed("Error parsing line", data_lines[next_line],
                   parse_data_line(data_lines[next_line]).count))
    /\ next_line' = next_line + 1
    /\ UNCHANGED <<epc, pdf_pages, next_page, full_text, data_lines,
                   parsed_rows, next_row, csvfile, pvars, lvars>>

\* VerifyWarning as it would be if a count mismatch ended the run
VerifyWarningFatal ==
    /\ epc = "parse"
    /\ next_line > Len(data_lines)
    /\ Len(parsed_rows) # expected_students
    /\ stdout' = Append(stdout, Printed("Warning", <<>>, Len(parsed_rows)))
    /\ epc' = "exited"
    /\ UNCHANGED <<pdf_pages, next_page, full_text, data_lines, next_line,
                   parsed_rows, next_row, csvfile, pvars, lvars>>

\* if len(parsed_rows) != expected_students: print the warning
VerifyWarning ==
    /\ epc = "parse"
    /\ next_line > Len(data_lines)
    /\ Len(parsed_rows) # expected_students
    /\ stdout' = Append(stdout, Printed("Warning", <<>>, Len(parsed_rows)))
    /\ epc' = "save"
    /\ UNCHANGED <<pdf_pages, next_page, full_text, data_lines, next_line,
                   parsed_rows, next_row, csvfile, pvars, lvars>>

\* else: print the success line
VerifySuccess ==
    /\ epc = "parse"
    /\ next_line > Len(data_lines)
    /\ Len(parsed_rows) = expected_students
    /\ stdout' = Append(stdout,
                        Printed("Successfully parsed", <<>>, Len(parsed_rows)))
    /\ epc' = "save"
    /\ UNCHANGED <<pdf_pages, next_page, full_text, data_lines, next_line,
                   parsed_rows, next_row, csvfile, pvars, lvars>>

\* the characters that make csv.writer quote a field (QUOTE_MINIMAL)
CsvSpecial == {",", "\"", "\r", "\n"}

\* a field as csv.writer writes it: quoted, its quotes doubled, when needed
csv_field(f) ==
    IF \E i \in 1..Len(f) : f[i] \in CsvSpecial
    THEN <<"\"">>
         \o Concat([i \in 1..Len(f) |->
                       IF f[i] = "\"" THEN <<"\"", "\"">> ELSE <<f[i]>>])
         \o <<"\"">>
    ELSE f

\* one line of the file, without its line terminator
csv_line(fields) ==
    Join(<<",">>, [i \in 1..Len(fields) |-> csv_field(fields[i])])

\* writer.writeheader(): the field names, as text
header_fields ==
    << <<"I", "C", "V", "A", " ", "I", "D">>,
       <<"F", "u", "l", "l", " ", "N", "a", "m", "e">>,
       <<"T", "e", "s", "t", " ", "D", "a", "t", "e">>,
       <<"S", "c", "a", "l", "e", " ", "S", "c", "o", "r", "e">>,
       <<"T", "o", "t", "a", "l", " ", "P", "e", "r", "c", "e", "n", "t", " ",
         "C", "o", "r", "r", "e", "c", "t">>,
       <<"A", "n", "a", "t", "o", "m", "y">>,
       <<"P", "h", "y", "s", "i", "o", "l", "o", "g", "y">>,
       <<"P", "h", "a", "r", "m", "a", "c", "o", "l", "o", "g", "y">>,
       <<"M", "i", "c", "r", "o", "b", "i", "o", "l", "o", "g", "y">>,
       <<"P", "a", "t", "h", "o", "l", "o", "g", "y">> >>

\* writer.writerow(row): the row's values in the order of fieldnames
row_line(row) == csv_line([k \in 1..10 |-> row[fieldnames[k]]])

\* open(output_file, "w") and writer.writeheader()
WriteHeader ==
    /\ epc = "save"
    /\ csvfile' = <<csv_line(header_fields)>>
    /\ epc' = "write"
    /\ UNCHANGED <<pdf_pages, next_page, full_text, data_lines, next_line,
                   parsed_rows, next_row, stdout, pvars, lvars>>

\* for row in parsed_rows: writer.writerow(row)
WriteRow ==
    /\ epc = "write"
    /\ next_row <= Len(parsed_rows)
    /\ csvfile' = Append(csvfile, row_line(parsed_rows[next_row]))
    /\ next_row' = next_row + 1
    /\ UNCHANGED <<epc, pdf_pages, next_page, full_text, data_lines,
                   next_line, parsed_rows, stdout, pvars, lvars>>

\* the file is closed and "Data saved to parsed_data.csv" printed
Saved ==
    /\ epc = "write"
    /\ next_row > Len(parsed_rows)
    /\ stdout' = Append(stdout, Printed("Data saved", <<>>, 0))
    /\ epc' = "done"
    /\ UNCHANGED <<pdf_pages, next_page, full_text, data_lines, next_line,
                   parsed_rows, next_row, csvfile, pvars, lvars>>

ExtractorNext ==
    \/ ExtractPage
    \/ SplitAndFilter
    \/ ParseRow
    \/ ParseError
    \/ VerifyWarning
    \/ VerifySuccess
    \/ WriteHeader
    \/ WriteRow
    \/ Saved

ExtractorSpec == ExtractorInit /\ [][ExtractorNext]_vars

(***************************************************************************)
(* load_VEA_to_database.py: the Loader.  The database server is taken to   *)
(* be reachable and a table that exists already to have the schema         *)
(* create_table gives it (primary key icva_id, transactional engine).      *)
(***************************************************************************)
MaxRows == 2

LowerSeq == <<"a", "b", "c", "d", "e", "f", "g", "h", "i", "j", "k", "l", "m",
              "n", "o", "p", "q", "r", "s", "t", "u", "v", "w", "x", "y", "z">>
UpperSeq == <<"A", "B", "C", "D", "E", "F", "G", "H", "I", "J", "K", "L", "M",
              "N", "O", "P", "Q", "R", "S", "T", "U", "V", "W", "X", "Y", "Z">>
DigitSeq == <<"0", "1", "2", "3", "4", "5", "6", "7", "8", "9">>

\* %b: the month abbreviations, matched without regard to case
MonthAbbr == << <<"J", "A", "N">>, <<"F", "E", "B">>, <<"M", "A", "R">>,
                <<"A", "P", "R">>, <<"M", "A", "Y">>, <<"J", "U", "N">>,
                <<"J", "U", "L">>, <<"A", "U", "G">>, <<"S", "E", "P">>,
                <<"O", "C", "T">>, <<"N", "O", "V">>, <<"D", "E", "C">> >>

upper(c) ==
    IF \E k \in 1..26 : LowerSeq[k] = c
    THEN UpperSeq[CHOOSE k \in 1..26 : LowerSeq[k] = c]
    ELSE c

digit_value(c) == (CHOOSE k \in 1..10 : DigitSeq[k] = c) - 1

RECURSIVE number(_)
\* the value of a run of decimal digits
number(ds) ==
    IF ds = <<>> THEN 0
    ELSE number(SubSeq(ds, 1, Len(ds) - 1)) * 10 + digit_value(ds[Len(ds)])

is_leap(y) == (y % 4 = 0 /\ y % 100 # 0) \/ y % 400 = 0

days_in_month(y, m) ==
    IF m = 2 THEN (IF is_leap(y) THEN 29 ELSE 28)
    ELSE IF m \in {4, 6, 9, 11} THEN 30 ELSE 31

\* the parts of a text between its hyphens: the literal "-" of the format
dash_fields(s) ==
    LET ds == {i \in 1..Len(s) : s[i] = "-"}
        n == Cardinality(ds)
        start(k) == IF k = 1 THEN 1 ELSE Kth(ds, k - 1) + 1
        end(k) == IF k <= n THEN Kth(ds, k) - 1 ELSE Len(s)
    IN  [k \in 1..(n + 1) |-> SubSeq(s, start(k), end(k))]

NoDate == [ok |-> FALSE, date |-> <<0, 0, 0>>]

\* pd.to_datetime(text, format="%d-%b-%Y").date(): the date <<y, m, d>>, or
\* the ValueError of a text that is not in the format or names no day
to_datetime(text) ==
    LET f == dash_fields(text) IN
    IF Len(f) # 3 THEN NoDate
    ELSE LET dd == f[1]
             mon == [i \in 1..Len(f[2]) |-> upper(f[2][i])]
             yy == f[3]
         IN  IF ~(/\ Len(dd) \in {1, 2}
                  /\ \A i \in 1..Len(dd) : dd[i] \in Digit
                  /\ Len(yy) = 4
                  /\ \A i \in 1..4 : yy[i] \in Digit
                  /\ \E m \in 1..12 : MonthAbbr[m] = mon)
             THEN NoDate
             ELSE LET d == number(dd)
                      m == CHOOSE k \in 1..12 : MonthAbbr[k] = mon
                      y == number(yy)
                  IN  IF y >= 1 /\ d >= 1 /\ d <= days_in_month(y, m)
                      THEN [ok |-> TRUE, date |-> <<y, m, d>>]
                      ELSE NoDate

\* the values a cell of the test_date column takes
StrCell(t) == [type |-> "str", text |-> t, date |-> <<0, 0, 0>>]
DateCell(d) == [type |-> "date", text |-> <<>>, date |-> d]
NullCell == [type |-> "null", text |-> <<>>, date |-> <<0, 0, 0>>]

AllColumns == {"icva_id", "test_date", "vea_score"}

Date3 == <<"0", "1", "-", "J", "a", "n", "-", "2", "0", "2", "4">>
BadDate == <<"3", "1", "-", "F", "E", "B", "-", "2", "0", "2", "5">>

\* the rows a file is made of
RowPool ==
    {[icva_id |-> "ICVA0001", test_date |-> Date1, vea_score |-> 450],
     [icva_id |-> "ICVA0001", test_date |-> Date3, vea_score |-> 460],
     [icva_id |-> "ICVA0002", test_date |-> Date3, vea_score |-> 470],
     [icva_id |-> "ICVA0003", test_date |-> BadDate, vea_score |-> 480]}

\* a row with its test_date left out, for a file without that column
WithoutDate(rows) ==
    [i \in 1..Len(rows) |-> [rows[i] EXCEPT !.test_date = <<>>]]

\* a row a table holds when the run starts
OldRow ==
    [icva_id |-> "ICVA0001", test_date |-> DateCell(<<2020, 1, 2>>),
     vea_score |-> 300]

TableChoices ==
    {NoTable, [exists |-> TRUE, rows |-> {}],
     [exists |-> TRUE, rows |-> {OldRow}]}

\* the .env files tried: each required setting set, unset or empty here
\* and there; DB_TABLE unset or naming a table
Environments ==
    {[k \in Settings |->
         CASE k = "DB_HOST" -> h [] k = "DB_USER" -> u [] k = "DB_PASS" -> pw
           [] k = "DB_NAME" -> n [] k = "DB_TABLE" -> t] :
        h \in {None, "", "cvmdb"}, u \in {None, "loader"},
        pw \in {"", "secret"}, n \in {None, "cvm_prod"},
        t \in {None, "vea_2025", "scores"}}

LoaderInit ==
    /\ ParserIdle
    /\ ExtractorIdle
    /\ lpc = "start"
    /\ env \in Environments
    /\ csv_exists \in BOOLEAN
    /\ csv_columns \in (IF csv_exists
                        THEN {AllColumns, AllColumns \ {"test_date"}}
                        ELSE {{}})
    /\ csv_rows \in (IF ~csv_exists THEN {<<>>}
                     ELSE IF "test_date" \in csv_columns
                     THEN SeqsUpTo(RowPool, MaxRows)
                     ELSE {WithoutDate(r) : r \in SeqsUpTo(RowPool, MaxRows)})
    /\ cfg = [k \in {CfgKeys[i] : i \in 1..5} |-> None]
    /\ engine = <<>>
    /\ df = <<>>
    /\ db \in {[t \in TableNames |->
                   IF t = "vea_2025" THEN a ELSE IF t = "scores" THEN b
                   ELSE NoTable] : a \in TableChoices, b \in TableChoices}
    /\ db_before = db
    /\ io_log = <<>> /\ out = <<>> /\ err = <<>>
    /\ exit_status = "running"

Op(op, table) == [op |-> op, table |-> table]
Message(kind, names) == [kind |-> kind, names |-> names]

\* CheckCsvMissing as it would be without the exit: main() is called
CheckCsvMissingGoesOn ==
    /\ lpc = "start"
    /\ ~csv_exists
    /\ io_log' = Append(io_log, Op("exists", ""))
    /\ err' = Append(err, Message("CSV file not found", <<>>))
    /\ lpc' = "load_env"
    /\ UNCHANGED <<env, csv_exists, csv_columns, csv_rows, cfg, engine, df,
                   db, db_before, out, exit_status, pvars, evars>>

\* if not args.csv.exists(): the message on stderr and sys.exit(1)
CheckCsvMissing ==
    /\ lpc = "start"
    /\ ~csv_exists
    /\ io_log' = Append(io_log, Op("exists", ""))
    /\ err' = Append(err, Message("CSV file not found", <<>>))
    /\ exit_status' = "1"
    /\ lpc' = "exited"
    /\ UNCHANGED <<env, csv_exists, csv_columns, csv_rows, cfg, engine, df,
                   db, db_before, out, pvars, evars>>

\* the file exists: main(args.csv) is called
CheckCsvPresent ==
    /\ lpc = "start"
    /\ csv_exists
    /\ io_log' = Append(io_log, Op("exists", ""))
    /\ lpc' = "load_env"
    /\ UNCHANGED <<env, csv_exists, csv_columns, csv_rows, cfg, engine, df,
                   db, db_before, out, err, exit_status, pvars, evars>>

\* load_env: cfg as read from the environment
getenv_cfg ==
    [k \in {CfgKeys[i] : i \in 1..5} |->
        CASE k = "host" -> env["DB_HOST"]
          [] k = "user" -> env["DB_USER"]
          [] k = "password" -> env["DB_PASS"]
          [] k = "database" -> env["DB_NAME"]
          [] k = "table" -> env["DB_TABLE"]]

\* missing as it would be if only unset variables counted, not empty ones
missing_unset_only(c) ==
    SelectSeq(CfgKeys, LAMBDA k : c[k] = None /\ k # "table")

\* [k for k, v in cfg.items() if v in (None, "",) and k != "table"]
missing(c) ==
    SelectSeq(CfgKeys, LAMBDA k : c[k] \in {None, ""} /\ k # "table")

\* an exception no one catches: the traceback on stderr, exit status 1
Raise(kind, names) ==
    /\ err' = Append(err, Message(kind, names))
    /\ exit_status' = "1"
    /\ lpc' = "raised"

\* load_env raises RuntimeError("Missing required env vars: ...")
LoadEnvMissing ==
    /\ lpc = "load_env"
    /\ missing(getenv_cfg) # <<>>
    /\ Raise("Missing required env vars", missing(getenv_cfg))
    /\ UNCHANGED <<env, csv_exists, csv_columns, csv_rows, cfg, engine, df,
                   db, db_before, io_log, out, pvars, evars>>

\* load_env returns cfg
LoadEnv ==
    /\ lpc = "load_env"
    /\ missing(getenv_cfg) = <<>>
    /\ cfg' = getenv_cfg
    /\ lpc' = "create_engine"
    /\ UNCHANGED <<env, csv_exists, csv_columns, csv_rows, engine, df, db,
                   db_before, io_log, out, err, exit_status, pvars, evars>>

\* create_engine(engine_url, future=True): no connection is made yet
CreateEngine ==
    /\ lpc = "create_engine"
    /\ engine' = <<cfg["user"], cfg["password"], cfg["host"], cfg["database"]>>
    /\ lpc' = "read_csv"
    /\ UNCHANGED <<env, csv_exists, csv_columns, csv_rows, cfg, df, db,
                   db_before, io_log, out, err, exit_status, pvars, evars>>

\* pd.read_csv(csv_path): the rows, test_date as text when the column is
\* there and missing when it is not
read_csv ==
    [i \in 1..Len(csv_rows) |->
        [icva_id |-> csv_rows[i].icva_id,
         test_date |-> IF "test_date" \in csv_columns
                       THEN StrCell(csv_rows[i].test_date) ELSE NullCell,
         vea_score |-> csv_rows[i].vea_score]]

ReadCsv ==
    /\ lpc = "read_csv"
    /\ df' = read_csv
    /\ io_log' = Append(io_log, Op("read_csv", ""))
    /\ lpc' = "dates"
    /\ UNCHANGED <<env, csv_exists, csv_columns, csv_rows, cfg, engine, db,
                   db_before, out, err, exit_status, pvars, evars>>

\* df["test_date"] = pd.to_datetime(df["test_date"], ...).dt.date
convert_dates(frame) ==
    [i \in 1..Len(frame) |->
        [frame[i] EXCEPT
            !.test_date = DateCell(to_datetime(frame[i].test_date.text).date)]]

\* if "test_date" in df.columns, and every text is a date of the format
ConvertDates ==
    /\ lpc = "dates"
    /\ "test_date" \in csv_columns
    /\ \A i \in 1..Len(df) : to_datetime(df[i].test_date.text).ok
    /\ df' = convert_dates(df)
    /\ lpc' = "create_table"
    /\ UNCHANGED <<env, csv_exists, csv_columns, csv_rows, cfg, engine, db,
                   db_before, io_log, out, err, exit_status, pvars, evars>>

\* pd.to_datetime raises ValueError on a text that is no date of the format
ConvertDatesFails ==
    /\ lpc = "dates"
    /\ "test_date" \in csv_columns
    /\ \E i \in 1..Len(df) : ~to_datetime(df[i].test_date.text).ok
    /\ Raise("ValueError", <<>>)
    /\ UNCHANGED <<env, csv_exists, csv_columns, csv_rows, cfg, engine, df,
                   db, db_before, io_log, out, pvars, evars>>

\* the file has no test_date column: nothing is converted
NoDateColumn ==
    /\ lpc = "dates"
    /\ "test_date" \notin csv_columns
    /\ lpc' = "create_table"
    /\ UNCHANGED <<env, csv_exists, csv_columns, csv_rows, cfg, engine, df,
                   db, db_before, io_log, out, err, exit_status, pvars, evars>>

\* f"{table_name}" and name=cfg["table"]: the text of a value
format(v) == IF v = None THEN "None" ELSE v

\* create_table(engine, cfg["table"]): CREATE TABLE IF NOT EXISTS, committed
\* in a transaction of its own
CreateTable ==
    /\ lpc = "create_table"
    /\ db' = [db EXCEPT ![format(cfg["table"])] =
                 IF @.exists THEN @ ELSE [exists |-> TRUE, rows |-> {}]]
    /\ io_log' = io_log \o <<Op("connect", ""),
                             Op("create_table", format(cfg["table"]))>>
    /\ lpc' = "insert"
    /\ UNCHANGED <<env, csv_exists, csv_columns, csv_rows, cfg, engine, df,
                   db_before, out, err, exit_status, pvars, evars>>

\* the rows of frame that break the primary key of a table holding rows:
\* an id the table has, or an id an earlier row of frame has
duplicates(rows, frame) ==
    {i \in 1..Len(frame) :
        \/ \E r \in rows : r.icva_id = frame[i].icva_id
        \/ \E j \in 1..(i - 1) : frame[j].icva_id = frame[i].icva_id}

\* to_sql as it would be if a row with a known id replaced the stored row
to_sql_replace(rows, frame) ==
    [ok |-> TRUE,
     rows |-> {r \in rows : \A i \in 1..Len(frame) :
                               frame[i].icva_id # r.icva_id}
              \cup {frame[i] : i \in 1..Len(frame)}]

\* to_sql as it would be if each row were committed as it is inserted
to_sql_row_by_row(rows, frame) ==
    IF duplicates(rows, frame) = {}
    THEN [ok |-> TRUE, rows |-> rows \cup {frame[i] : i \in 1..Len(frame)}]
    ELSE [ok |-> FALSE,
          rows |-> rows \cup {frame[i] : i \in 1..(Min(duplicates(rows, frame)) - 1)}]

\* df.to_sql(if_exists="append", method="multi") inside engine.begin(): one
\* INSERT of all rows in one transaction, rolled back on IntegrityError
to_sql(rows, frame) ==
    IF duplicates(rows, frame) = {}
    THEN [ok |-> TRUE, rows |-> rows \cup {frame[i] : i \in 1..Len(frame)}]
    ELSE [ok |-> FALSE, rows |-> rows]

\* the insert goes through and is committed; the summary is printed
InsertRows ==
    /\ lpc = "insert"
    /\ cfg["table"] # None
    /\ to_sql(db[cfg["table"]].rows, df).ok
    /\ db' = [db EXCEPT ![cfg["table"]].rows = to_sql(@, df).rows]
    /\ io_log' = io_log \o <<Op("connect", ""), Op("insert", cfg["table"])>>
    /\ out' = Append(out, Message("Loaded rows", <<cfg["table"]>>))
    /\ exit_status' = "0"
    /\ lpc' = "done"
    /\ UNCHANGED <<env, csv_exists, csv_columns, csv_rows, cfg, engine, df,
                   db_before, err, pvars, evars>>

\* the insert breaks the primary key: the transaction is rolled back and
\* the IntegrityError ends the run
InsertFails ==
    /\ lpc = "insert"
    /\ cfg["table"] # None
    /\ ~to_sql(db[cfg["table"]].rows, df).ok
    /\ db' = [db EXCEPT ![cfg["table"]].rows = to_sql(@, df).rows]
    /\ io_log' = io_log \o <<Op("connect", ""), Op("insert", cfg["table"])>>
    /\ Raise("IntegrityError", <<cfg["table"]>>)
    /\ UNCHANGED <<env, csv_exists, csv_columns, csv_rows, cfg, engine, df,
                   db_before, out, pvars, evars>>

\* DB_TABLE was not set: to_sql(name=None) cannot build its table object
\* and raises before any statement is sent; the transaction is rolled back
InsertWithoutName ==
    /\ lpc = "insert"
    /\ cfg["table"] = None
    /\ io_log' = Append(io_log, Op("connect", ""))
    /\ Raise("to_sql: name is None", <<>>)
    /\ UNCHANGED <<env, csv_exists, csv_columns, csv_rows, cfg, engine, df,
                   db, db_before, out, pvars, evars>>

LoaderNext ==
    \/ CheckCsvMissing
    \/ CheckCsvPresent
    \/ LoadEnvMissing
    \/ LoadEnv
    \/ CreateEngine
    \/ ReadCsv
    \/ ConvertDates
    \/ ConvertDatesFails
    \/ NoDateColumn
    \/ CreateTable
    \/ InsertRows
    \/ InsertFails
    \/ InsertWithoutName

LoaderSpec == LoaderInit /\ [][LoaderNext]_vars

(***************************************************************************)
(* The record shape of spec section 3, stated without the code's regex     *)
(* call: a date token is a token that IS two digits, a hyphen, three       *)
(* upper-case letters, a hyphen and four digits.                           *)
(***************************************************************************)
IsDateToken(token) ==
    /\ Len(token) = 11
    /\ \A k \in {1, 2, 8, 9, 10, 11} : token[k] \in Digit
    /\ \A k \in {4, 5, 6} : token[k] \in Upper
    /\ token[3] = "-" /\ token[7] = "-"

\* the places after the id that hold a date token
DatePlaces(tokens) == {i \in 2..Len(tokens) : IsDateToken(tokens[i])}

\* [id, name tokens, date token, exactly 7 further tokens]
HasRecordShape(tokens) ==
    /\ DatePlaces(tokens) # {}
    /\ Len(tokens) - Min(DatePlaces(tokens)) = 7

\* the record spec section 3 assigns to a line of that shape
ExpectedRecord(tokens) ==
    LET d == Min(DatePlaces(tokens)) IN
    [f \in {fieldnames[k] : k \in 1..10} |->
        IF f = "ICVA ID" THEN tokens[1]
        ELSE IF f = "Full Name"
             THEN Join(<<" ">>, [j \in 1..(d - 2) |-> tokens[j + 1]])
        ELSE IF f = "Test Date" THEN tokens[d]
        ELSE tokens[d + (CHOOSE k \in 4..10 : fieldnames[k] = f) - 3]]

\* C1: every line of the shape [id, name tokens, date token, 7 further
\* tokens] parses to a record, never an error, holding the id, the name
\* tokens joined by single spaces, the date token and the 7 trailing tokens
\* in their order.
C1_ShapedLineParses ==
    (ppc = "returned" /\ HasRecordShape(split(line)))
        => (result.ok /\ result.row = ExpectedRecord(split(line)))

\* C2: a line whose first date token is not followed by exactly 7 tokens
\* yields no record: parse_data_line raises.
C2_WrongCountRejected ==
    (/\ ppc = "returned"
     /\ DatePlaces(split(line)) # {}
     /\ Len(split(line)) - Min(DatePlaces(split(line))) # 7)
        => ~result.ok


(***************************************************************************)
(* The Extractor's batch.                                                  *)
(***************************************************************************)
Parses(l) == parse_data_line(l).ok

\* the records of the first n candidate lines that parse, in line order
RecordsOf(n) ==
    LET good == SelectSeq(SubSeq(data_lines, 1, n), Parses)
    IN  [i \in 1..Len(good) |-> parse_data_line(good[i]).row]

\* the output file's rows, its header line left out
WrittenRows == Tail(csvfile)

\* the positions of main() from which a step is taken
Running == {"extract", "parse", "save", "write"}

\* C3: a candidate line that fails to parse, whatever the reason, does not
\* abort the batch: the run is only ever under way or at its end, every
\* line before the loop's position has been processed, and the rows of the
\* output file are exactly the records of the lines that parse, one per
\* line, in order.
C3_BadLineDoesNotAbortBatch ==
    /\ epc \in Running \cup {"done"}
    /\ (epc = "parse" => parsed_rows = RecordsOf(next_line - 1))
    /\ (epc \in {"save", "write", "done"}
            => parsed_rows = RecordsOf(Len(data_lines)))
    /\ (epc = "done"
            => LET records == RecordsOf(Len(data_lines))
               IN  WrittenRows =
                       [i \in 1..Len(records) |-> row_line(records[i])])

\* a finished batch in which a line without a date token and a line with
\* the wrong trailing count both came before a line that parsed
C3_Witness ==
    /\ epc = "done"
    /\ \E i, j, k \in 1..Len(data_lines) :
          /\ i < k /\ j < k
          /\ parse_data_line(data_lines[i]).ok = FALSE
          /\ parse_data_line(data_lines[i]).error = "StopIteration"
          /\ parse_data_line(data_lines[j]).ok = FALSE
          /\ parse_data_line(data_lines[j]).error = "ValueError"
          /\ Parses(data_lines[k])
    /\ Len(WrittenRows) >= 1

\* the header line as text
HeaderText ==
    Join(<<",">>, header_fields)

\* the step that leaves the parse loop: the expected-versus-actual check
CountCheckStep == epc = "parse" /\ epc' # "parse"

\* C10: the count check is non-fatal and touches no record: whether or not
\* the count is the expected one, the step goes on to the save phase with
\* parsed_rows as it was, and the finished file is the fixed 10-column
\* header followed by every parsed record, in order.
C10_CountCheckIsNonFatal ==
    /\ [][CountCheckStep
            => (epc' = "save" /\ parsed_rows' = parsed_rows
                /\ csvfile' = csvfile)]_vars
    /\ [](epc = "done"
            => /\ Len(header_fields) = 10
               /\ csvfile[1] = HeaderText
               /\ Len(csvfile) = Len(parsed_rows) + 1
               /\ \A i \in 1..Len(parsed_rows) :
                      csvfile[i + 1] = row_line(parsed_rows[i]))

\* a finished run whose count was not the expected one and whose records
\* were all written
C10_Witness ==
    /\ epc = "done"
    /\ Len(parsed_rows) # expected_students
    /\ Len(parsed_rows) >= 2
    /\ \E i \in 1..Len(stdout) : stdout[i].kind = "Warning"
    /\ Len(csvfile) = Len(parsed_rows) + 1

(***************************************************************************)
(* The Loader's runs.                                                      *)
(***************************************************************************)
Ended == lpc \in {"done", "exited", "raised"}

RequiredSettings == {"DB_HOST", "DB_USER", "DB_PASS", "DB_NAME"}

\* the required settings that are unset or empty
RequiredMissing == {k \in RequiredSettings : env[k] \in {None, ""}}

\* the table the run is to fill: DB_TABLE, or vea_2025 when it is omitted
Destination ==
    IF env["DB_TABLE"] = None THEN "vea_2025" ELSE env["DB_TABLE"]

\* the rows of the file as the table is to hold them
FileRowsStored ==
    {[icva_id |-> csv_rows[i].icva_id,
      test_date |-> IF "test_date" \in csv_columns
                    THEN DateCell(to_datetime(csv_rows[i].test_date).date)
                    ELSE NullCell,
      vea_score |-> csv_rows[i].vea_score] : i \in 1..Len(csv_rows)}

\* a row of the file has an id the destination table held before the run
FileHitsStoredId ==
    \E i \in 1..Len(csv_rows) : \E r \in db_before[Destination].rows :
        csv_rows[i].icva_id = r.icva_id

WellFormedFile ==
    /\ csv_exists
    /\ csv_columns = AllColumns
    /\ \A i \in 1..Len(csv_rows) : to_datetime(csv_rows[i].test_date).ok
    /\ \A i, j \in 1..Len(csv_rows) :
          csv_rows[i].icva_id = csv_rows[j].icva_id => i = j

\* C5: a run with the four required settings, an empty or absent
\* destination table and a file of N well-formed rows with distinct ids
\* (here N >= 1) ends in success with exactly N rows in the table, each
\* holding a calendar date in its date column.
C5_WellFormedLoadSucceeds ==
    (Ended /\ RequiredMissing = {} /\ WellFormedFile
       /\ Len(csv_rows) >= 1
       /\ db_before[Destination].rows = {})
        => /\ lpc = "done"
           /\ Cardinality(db[Destination].rows) = Len(csv_rows)
           /\ \A r \in db[Destination].rows : r.test_date.type = "date"

\* the cfg key of a setting
KeyOf(k) ==
    CASE k = "DB_HOST" -> "host" [] k = "DB_USER" -> "user"
      [] k = "DB_PASS" -> "password" [] k = "DB_NAME" -> "database"
      [] k = "DB_TABLE" -> "table"

\* the names the error is to list
MissingNames ==
    SelectSeq(CfgKeys, LAMBDA c : \E k \in RequiredMissing : KeyOf(k) = c)

ConfigError == Message("Missing required env vars", MissingNames)

\* C6 as claimed: with a required setting unset or empty the run ends in
\* the error that names the missing settings, before any I/O at all: the
\* input file has not even been checked.
C6_ConfigCheckedBeforeAnyIO ==
    (Ended /\ RequiredMissing # {})
        => (lpc = "raised" /\ err = <<ConfigError>> /\ io_log = <<>>)

\* C6 as amended: the existence of the input file is checked first.  With
\* the file there and a required setting unset or empty, the run ends in
\* the error naming the missing settings, with the file unread, no engine,
\* no connection, no table created and no row inserted; with the file
\* absent it ends in the file error instead.  A missing table name alone
\* never causes the configuration error.
C6_ConfigCheckedAfterFileCheck ==
    /\ (RequiredMissing # {} /\ csv_exists)
          => /\ lpc \in {"start", "load_env", "raised"}
             /\ lpc = "raised"
                   => /\ err = <<ConfigError>>
                      /\ exit_status = "1"
                      /\ io_log = <<Op("exists", "")>>
                      /\ engine = <<>> /\ df = <<>> /\ db = db_before
    /\ (RequiredMissing # {} /\ ~csv_exists)
          => /\ lpc \in {"start", "exited"}
             /\ \A i \in 1..Len(err) : err[i].kind # ConfigError.kind
    /\ RequiredMissing = {}
          => \A i \in 1..Len(err) : err[i].kind # ConfigError.kind

\* the run ended in the configuration error with the file there, one
\* setting unset and another empty
C6_Witness ==
    /\ lpc = "raised"
    /\ csv_exists
    /\ err = <<ConfigError>>
    /\ \E k \in RequiredMissing : env[k] = None
    /\ \E k \in RequiredMissing : env[k] = ""

\* the table operations the run has sent to the database
TableOps ==
    SelectSeq(io_log, LAMBDA o : o.op \in {"create_table", "insert"})

\* C7: the create-table step and the insert step both use the table named
\* by DB_TABLE, and the table vea_2025 when DB_TABLE is omitted.
C7_TableNameDefaultsToVea2025 ==
    /\ \A i \in 1..Len(TableOps) : TableOps[i].table = Destination
    /\ lpc = "insert" => db[Destination].exists

\* C8: with the input file absent the run ends in exit status 1 with the
\* message on the error stream, and nothing else happens: no engine, no
\* connection, no table created, no row written.
C8_MissingFileExitsBeforeDatabase ==
    ~csv_exists
        => /\ lpc \in {"start", "exited"}
           /\ lpc = "exited"
                 => /\ exit_status \notin {"0", "running"}
                    /\ err = <<Message("CSV file not found", <<>>)>>
                    /\ out = <<>>
                    /\ \A i \in 1..Len(io_log) :
                          io_log[i].op \notin {"connect", "create_table",
                                               "insert", "read_csv"}
                    /\ engine = <<>>
                    /\ db = db_before

\* the run ended on the missing file although its settings were complete
C8_Witness ==
    /\ lpc = "exited"
    /\ ~csv_exists
    /\ RequiredMissing = {}
    /\ err # <<>>

====
